---- MODULE Spec2Model ----
(***************************************************************************)
(* A model of test-code/backend/server.js: the express application with    *)
(* its request-logging middleware, its routes and simulation endpoints,    *)
(* and the continuous log generator with its three timer loops, all        *)
(* writing through the winston logger of logger.js.                        *)
(*                                                                         *)
(* Time is the millisecond clock read by Date.now().  The process runs on  *)
(* one event loop: every action below is one callback run to completion.   *)
(* A timer callback runs no earlier than its due time, and pending timers  *)
(* run in the order of their due times.                                    *)
(*                                                                         *)
(* logger.<level>(...) hands one event to the Console transport.  logger.js *)
(* installs no 'error' listener and no exception handling, so a write that *)
(* the transport does not accept surfaces as an exception in the caller.   *)
(***************************************************************************)
EXTENDS Integers, Sequences, FiniteSets, TLC

VARIABLES
    now,          \* Date.now()
    log,          \* the events the logger accepted, in order
    faults,       \* how many logger writes failed so far
    crashed,      \* the process died of an uncaught exception
    listening,    \* the app.listen callback has run
    reqs,         \* the requests, by slot
    fastDue,      \* due time of the 800 ms interval, -1 when not armed
    healthDue,    \* due time of the 10 s interval, -1 when not armed
    burstDue,     \* due time of the burst interval, -1 when not armed
    burstPeriod,  \* the period the burst interval was created with
    periodDraws,  \* how many times the burst period has been drawn
    bursts,       \* how many times the burst callback has run
    cascades,     \* the pending setTimeout callbacks of the bursts
    fastTicks,    \* how many times the 800 ms callback has run
    healthTicks,  \* how many times the 10 s callback has run
    lastTick,     \* what the last timer callback did
    mongo         \* the initial connection to the store

vars == <<now, log, faults, crashed, listening, reqs, fastDue, healthDue,
          burstDue, burstPeriod, periodDraws, bursts, cascades, fastTicks,
          healthTicks, lastTick, mongo>>

\* ---------------------------------------------------------------- bounds

MaxReq == 2
MaxClock == 2002
MaxSinkFaults == 1
MaxFastTicks == 1
MaxHealthTicks == 1
MaxBursts == 2
MaxOverdue == 1

\* Values drawn for the elapsed time between two callbacks: just above the
\* slow-request threshold.  A duration of exactly 1000 ms arises from the
\* timeout of a slow request.
AdvanceSteps == {1001}
\* Values drawn for Math.random().toString(36).slice(2, 8) in a reqId.
RandIds == {"a"}

\* ------------------------------------------------------- program constants

PORT == 5000
SlowRequestThreshold == 1000
SlowOperationThreshold == 3000
FastPeriod == 800
HealthPeriod == 10000
StaggerDelay == 200

\* ----------------------------------------------------------------- events

\* One structured event as the logger receives it: the level of the method
\* called, the message, the timestamp the logger's format adds, and the
\* attributes of the metadata object that the model reads.  src names the
\* emitter (a request slot, a burst, a tick of the fast loop) and idx the
\* loop index of a burst sub-event; neither is written by the program.
Ev(level, message, type) ==
    [level |-> level, message |-> message, type |-> type, timestamp |-> now,
     src |-> 0, idx |-> -1,
     reqId |-> <<>>, statusCode |-> -1, duration |-> -1,
     burstSize |-> -1, correlationId |-> -1,
     errorCode |-> "", exceededThreshold |-> FALSE, event |-> "",
     outcome |-> "", scenario |-> 0, error |-> ""]

\* The events of evs that reach the log when write number f fails (f = 0: none
\* fails).  The failing write throws, so nothing after it is written either.
Written(evs, f) == IF f = 0 THEN evs ELSE SubSeq(evs, 1, f - 1)

\* Which of n consecutive writes may fail: any one, or none.
Faults(n) == IF faults < MaxSinkFaults THEN 0..n ELSE {0}

\* ------------------------------------------------ request instrumentation

\* The level of the completion event (server.js:34).
logFnGt(statusCode) ==
    IF statusCode > 500 THEN "error"
    ELSE IF statusCode >= 400 THEN "warn" ELSE "info"

logFn(statusCode) ==
    IF statusCode >= 500 THEN "error"
    ELSE IF statusCode >= 400 THEN "warn" ELSE "info"

\* Whether the finish listener adds the slow-request warning (server.js:45).
isSlowGe(duration) == duration >= SlowRequestThreshold

isSlow(duration) == duration > SlowRequestThreshold

IdleReq ==
    [phase |-> "idle", route |-> "", start |-> -1, reqId |-> <<>>,
     statusCode |-> -1, body |-> "", bodyDuration |-> -1,
     listener |-> FALSE, due |-> -1, failure |-> ""]

IncomingRequest(s, reqId) ==
    [Ev("info", "Incoming request", "http-request")
        EXCEPT !.src = s, !.reqId = reqId]

\* The reqId the finish listener logs: the constant of its closure.
finishReqIdFresh(r) == <<now, r.reqId[2]>>

finishReqId(r) == r.reqId

RequestCompleted(s, r, duration) ==
    [Ev(logFn(r.statusCode), "Request completed", "http-response")
        EXCEPT !.src = s, !.reqId = finishReqId(r),
               !.statusCode = r.statusCode, !.duration = duration]

SlowRequestDetected(s, r, duration) ==
    [Ev("warn", "Slow request detected", "performance")
        EXCEPT !.src = s, !.reqId = finishReqId(r), !.duration = duration]

\* The line morgan("combined") hands to its stream on finish.
AccessLog(s) ==
    [Ev("info", "combined access line", "http-access-log") EXCEPT !.src = s]

\* What the two finish listeners write, in their order of registration: the
\* middleware's own listener, then morgan's.
FinishEventsTwice(s, r, duration) ==
    <<RequestCompleted(s, r, duration), RequestCompleted(s, r, duration)>>
    \o (IF isSlow(duration) THEN <<SlowRequestDetected(s, r, duration)>> ELSE <<>>)
    \o <<AccessLog(s)>>

FinishEvents(s, r, duration) ==
    <<RequestCompleted(s, r, duration)>>
    \o (IF isSlow(duration) THEN <<SlowRequestDetected(s, r, duration)>> ELSE <<>>)
    \o <<AccessLog(s)>>

\* ------------------------------------------------------------------ routes

SyncRoutes == {"health", "simError", "simWarning", "simAuthFail", "notFound"}
LogsRoutes == {"logsGet", "logsPost"}

\* The event a synchronous route handler writes before it responds.
HandlerEventAuthAsError(route, s) ==
    CASE route = "health" ->
           [Ev("info", "Health check performed", "health") EXCEPT !.src = s]
      [] route = "simError" ->
           [Ev("error", "CRITICAL: Application error occurred", "application-error")
               EXCEPT !.src = s, !.errorCode = "ERR_SIM_500"]
      [] route = "simWarning" ->
           [Ev("warn", "High memory usage detected", "performance") EXCEPT !.src = s]
      [] route = "simAuthFail" ->
           [Ev("error", "Authentication failure", "security")
               EXCEPT !.src = s, !.event = "authentication_failed"]
      [] route = "notFound" ->
           [Ev("warn", "Route not found", "http-error")
               EXCEPT !.src = s, !.statusCode = 404]

HandlerEvent(route, s) ==
    CASE route = "health" ->
           [Ev("info", "Health check performed", "health") EXCEPT !.src = s]
      [] route = "simError" ->
           [Ev("error", "CRITICAL: Application error occurred", "application-error")
               EXCEPT !.src = s, !.errorCode = "ERR_SIM_500"]
      [] route = "simWarning" ->
           [Ev("warn", "High memory usage detected", "performance") EXCEPT !.src = s]
      [] route = "simAuthFail" ->
           [Ev("warn", "Authentication failure", "security")
               EXCEPT !.src = s, !.event = "authentication_failed"]
      [] route = "notFound" ->
           [Ev("warn", "Route not found", "http-error")
               EXCEPT !.src = s, !.statusCode = 404]

RouteStatusNotFoundOk(route) ==
    CASE route = "health" -> 200
      [] route = "simError" -> 500
      [] route = "simWarning" -> 200
      [] route = "simAuthFail" -> 401
      [] route = "notFound" -> 200

RouteStatusAllOk(route) ==
    CASE route = "health" -> 200
      [] route = "simError" -> 200
      [] route = "simWarning" -> 200
      [] route = "simAuthFail" -> 401
      [] route = "notFound" -> 404

RouteStatus(route) ==
    CASE route = "health" -> 200
      [] route = "simError" -> 500
      [] route = "simWarning" -> 200
      [] route = "simAuthFail" -> 401
      [] route = "notFound" -> 404

RouteBody(route) ==
    CASE route = "health" -> "health"
      [] route = "simError" -> "Simulated error"
      [] route = "simWarning" -> "simulated warning logged"
      [] route = "simAuthFail" -> "Unauthorized"
      [] route = "notFound" -> "Not found"

Respond(r, statusCode, body) ==
    [r EXCEPT !.phase = "responded", !.statusCode = statusCode, !.body = body]

\* The message of the exception of a logger call whose write is rejected, and
\* of the rejection of a query of the store.
WriteRejected == "write rejected"
QueryRejected == "query rejected"

\* An exception thrown synchronously under the express router reaches the
\* default error handler, which answers 500 with its own body.  failure
\* keeps the message of the exception; the program stores it nowhere.
ExpressError(r) ==
    [Respond(r, 500, "express-error") EXCEPT !.failure = WriteRejected]

\* What a build does with the rejected promise of an async route handler:
\* the process dies of the unhandled rejection, or only warns and the request
\* is never answered, or the router forwards it to the error handler.
RejectionOutcomes == {"crash", "hang", "error500"}

Rejected(r, outcome) ==
    IF outcome = "error500" THEN ExpressError(r)
    ELSE [r EXCEPT !.phase = "hung", !.failure = WriteRejected]

\* A new request is taken when the server listens; requests fill the slots in
\* order.  A handler suspended in an await holds nothing the server needs.
CanAcceptSerial(s) ==
    /\ listening
    /\ ~crashed
    /\ reqs[s].phase = "idle"
    /\ \A t \in 1..(s - 1) : reqs[t].phase \notin {"idle", "awaiting"}

CanAccept(s) ==
    /\ listening
    /\ ~crashed
    /\ reqs[s].phase = "idle"
    /\ \A t \in 1..(s - 1) : reqs[t].phase # "idle"

NewReq(route, reqId, f) ==
    [IdleReq EXCEPT !.route = route, !.start = now, !.reqId = reqId,
                    !.listener = (f # 1)]

schedVars == <<fastDue, healthDue, burstDue, burstPeriod, periodDraws, bursts,
               cascades, fastTicks, healthTicks, lastTick>>

\* A request to a route whose handler answers synchronously: the middleware
\* logs the request and registers its finish listener, the handler logs its
\* event and responds.
SyncRequest(s) ==
    /\ CanAccept(s)
    /\ \E route \in SyncRoutes, rnd \in RandIds, f \in Faults(2) :
         LET reqId == <<now, rnd>>
             evs == <<IncomingRequest(s, reqId), HandlerEvent(route, s)>>
             r == NewReq(route, reqId, f)
         IN /\ log' = log \o Written(evs, f)
            /\ faults' = faults + (IF f = 0 THEN 0 ELSE 1)
            /\ reqs' = [reqs EXCEPT ![s] =
                          IF f = 0
                          THEN Respond(r, RouteStatus(route), RouteBody(route))
                          ELSE ExpressError(r)]
    /\ UNCHANGED <<mongo, now, crashed, listening>>
    /\ UNCHANGED schedVars

\* Values drawn for delay = 1000 + Math.random() * 4000 (server.js:207).
SlowDelays == {1000, 3000, 3001, 4999}

StartingSlowOperation(s) ==
    [Ev("info", "Starting slow operation", "performance")
        EXCEPT !.src = s, !.event = "latency"]

\* The exceededThreshold attribute of the event (server.js:216).
exceededThresholdGe(duration) == duration >= SlowOperationThreshold

exceededThreshold(duration) == duration > SlowOperationThreshold

SlowOperationCompleted(s, duration) ==
    [Ev("warn", "Slow operation completed", "performance")
        EXCEPT !.src = s, !.event = "latency", !.duration = duration,
               !.exceededThreshold = exceededThreshold(duration)]

\* GET /api/simulate/slow up to its await: the handler is async, so a write
\* that throws in it rejects its promise instead of reaching the router.
SlowRequest(s) ==
    /\ CanAccept(s)
    /\ \E rnd \in RandIds, delay \in SlowDelays, f \in Faults(2),
          outcome \in RejectionOutcomes :
         LET reqId == <<now, rnd>>
             evs == <<IncomingRequest(s, reqId), StartingSlowOperation(s)>>
             r == NewReq("simSlow", reqId, f)
         IN /\ f # 2 => outcome = "hang"
            /\ log' = log \o Written(evs, f)
            /\ faults' = faults + (IF f = 0 THEN 0 ELSE 1)
            /\ reqs' = [reqs EXCEPT ![s] =
                          CASE f = 0 -> [r EXCEPT !.phase = "awaiting",
                                                  !.due = now + delay]
                            [] f = 1 -> ExpressError(r)
                            [] f = 2 -> Rejected(r, outcome)]
            /\ crashed' = (f = 2 /\ outcome = "crash")
    /\ UNCHANGED <<mongo, now, listening>>
    /\ UNCHANGED schedVars

\* The rest of GET /api/simulate/slow, once its timeout has run.
SlowResume(s) ==
    /\ ~crashed
    /\ reqs[s].phase = "awaiting"
    /\ reqs[s].route = "simSlow"
    /\ reqs[s].due <= now
    /\ \E f \in Faults(1), outcome \in RejectionOutcomes :
         LET duration == now - reqs[s].start
             evs == <<SlowOperationCompleted(s, duration)>>
         IN /\ f = 0 => outcome = "hang"
            /\ log' = log \o Written(evs, f)
            /\ faults' = faults + f
            /\ reqs' = [reqs EXCEPT ![s] =
                          IF f = 0
                          THEN [Respond(@, 200, "slow response")
                                  EXCEPT !.bodyDuration = duration]
                          ELSE Rejected(@, outcome)]
            /\ crashed' = (f = 1 /\ outcome = "crash")
    /\ UNCHANGED <<mongo, now, listening>>
    /\ UNCHANGED schedVars

\* GET and POST /api/logs up to the await of the query.
LogsRequest(s) ==
    /\ CanAccept(s)
    /\ \E route \in LogsRoutes, rnd \in RandIds, f \in Faults(1) :
         LET reqId == <<now, rnd>>
             r == NewReq(route, reqId, f)
         IN /\ log' = log \o Written(<<IncomingRequest(s, reqId)>>, f)
            /\ faults' = faults + f
            /\ reqs' = [reqs EXCEPT ![s] =
                          IF f = 0 THEN [r EXCEPT !.phase = "awaiting"]
                          ELSE ExpressError(r)]
    /\ UNCHANGED <<mongo, now, crashed, listening>>
    /\ UNCHANGED schedVars

LogsFetched(s, route) ==
    [Ev("info",
        IF route = "logsGet" THEN "Log entries fetched" ELSE "Log entry created",
        "database-query") EXCEPT !.src = s]

\* The event of the catch block: error is err.message.
LogsFailed(s, route, err) ==
    [Ev("error",
        IF route = "logsGet" THEN "Failed to fetch logs"
        ELSE "Failed to create log entry",
        "database-query") EXCEPT !.src = s, !.error = err]

\* The rest of a /api/logs handler once the query has settled: the try block
\* logs and answers; the catch block, entered when the query rejects or the
\* write of the try block throws, logs the failure and answers 500.
LogsResume(s) ==
    /\ ~crashed
    /\ reqs[s].phase = "awaiting"
    /\ reqs[s].route \in LogsRoutes
    /\ \E queryOk \in BOOLEAN, fTry \in Faults(1), outcome \in RejectionOutcomes :
         LET route == reqs[s].route
             tried == queryOk /\ fTry = 0
             nTry == IF queryOk THEN fTry ELSE 0
             err == IF queryOk THEN WriteRejected ELSE QueryRejected
         IN /\ ~queryOk => fTry = 0
            /\ mongo = "failed" => ~queryOk
            /\ \E fCatch \in (IF ~tried /\ faults + nTry < MaxSinkFaults
                              THEN {0, 1} ELSE {0}) :
                 /\ fCatch = 0 => outcome = "hang"
                 /\ log' = log \o (IF tried THEN <<LogsFetched(s, route)>>
                                   ELSE IF fCatch = 0 THEN <<LogsFailed(s, route, err)>>
                                   ELSE <<>>)
                 /\ faults' = faults + nTry + fCatch
                 /\ reqs' = [reqs EXCEPT ![s] =
                               IF tried
                               THEN Respond(@, IF route = "logsGet" THEN 200 ELSE 201,
                                            "entries")
                               ELSE IF fCatch = 0
                               THEN [Respond(@, 500, "Internal server error")
                                       EXCEPT !.failure = err]
                               ELSE Rejected(@, outcome)]
                 /\ crashed' = (fCatch = 1 /\ outcome = "crash")
    /\ UNCHANGED <<mongo, now, listening>>
    /\ UNCHANGED schedVars

\* The response's 'finish' event: the listeners registered for this request
\* run one after the other.  An exception in a listener is uncaught.
Finish(s) ==
    /\ ~crashed
    /\ reqs[s].phase = "responded"
    /\ LET r == reqs[s]
           duration == now - r.start
           evs == IF r.listener THEN FinishEvents(s, r, duration) ELSE <<>>
       IN \E f \in Faults(Len(evs)) :
            /\ log' = log \o Written(evs, f)
            /\ faults' = faults + (IF f = 0 THEN 0 ELSE 1)
            /\ crashed' = (f # 0)
            /\ reqs' = [reqs EXCEPT ![s].phase = IF f = 0 THEN "done" ELSE "aborted"]
    /\ UNCHANGED <<mongo, now, listening>>
    /\ UNCHANGED schedVars

\* -------------------------------------------------------------- the store

\* The event of the catch callback of mongoose.connect (server.js:76-78).
InitialConnectionFailedWarn ==
    [Ev("warn", "MongoDB initial connection failed", "database")
        EXCEPT !.error = QueryRejected]

InitialConnectionFailed ==
    [Ev("error", "MongoDB initial connection failed", "database")
        EXCEPT !.error = QueryRejected]

\* The initial connection fails (server.js:71-78): the promise of
\* mongoose.connect rejects and its catch callback writes an event.  Whether
\* the connection also emits 'disconnected' before that and 'error' after it,
\* to the listeners of lines 73 and 74, depends on the build of the library.
\* A write that throws here is an unhandled rejection or an uncaught
\* exception, which a build of the runtime may or may not survive.
ConnectFails ==
    /\ ~crashed
    /\ mongo = "connecting"
    /\ mongo' = "failed"
    /\ \E emitsDisconnected, emitsError, dies \in BOOLEAN :
         LET evs == (IF emitsDisconnected
                     THEN <<[Ev("warn", "MongoDB disconnected", "database")
                                EXCEPT !.event = "disconnected"]>>
                     ELSE <<>>)
                    \o <<InitialConnectionFailed>>
                    \o (IF emitsError
                        THEN <<[Ev("error", "MongoDB connection error", "database")
                                   EXCEPT !.event = "error",
                                          !.error = QueryRejected]>>
                        ELSE <<>>)
         IN \E f \in Faults(Len(evs)) :
              /\ f = 0 => dies
              /\ log' = log \o Written(evs, f)
              /\ faults' = faults + (IF f = 0 THEN 0 ELSE 1)
              /\ crashed' = (f # 0 /\ dies)
    /\ UNCHANGED <<now, listening, reqs>>
    /\ UNCHANGED schedVars

\* --------------------------------------------------------------- the clock

\* Time passes between two callbacks.
AdvanceBy ==
    /\ ~crashed
    /\ \E d \in AdvanceSteps : now + d <= MaxClock /\ now' = now + d
    /\ UNCHANGED <<mongo, log, faults, crashed, listening, reqs>>
    /\ UNCHANGED schedVars

\* Time passes up to the due time of the timeout of a suspended slow request.
AdvanceToTimeout ==
    /\ ~crashed
    /\ \E s \in 1..MaxReq :
         /\ reqs[s].phase = "awaiting"
         /\ reqs[s].route = "simSlow"
         /\ reqs[s].due > now
         /\ now' = reqs[s].due
    /\ UNCHANGED <<mongo, log, faults, crashed, listening, reqs>>
    /\ UNCHANGED schedVars

\* ------------------------------------------------------- scenario catalog

statusCodes == <<200, 201, 204, 301, 400, 401, 403, 404, 500, 502, 503>>
paymentStatuses == <<"completed", "failed", "refunded", "pending">>
breakerStates == <<"open", "half-open">>

\* The level of the API-request scenario (server.js:291).
apiLogFnGt(status) ==
    IF status >= 500 THEN "error" ELSE IF status > 400 THEN "warn" ELSE "info"

apiLogFnFatal(status) ==
    IF status >= 500 THEN "fatal" ELSE IF status >= 400 THEN "warn" ELSE "info"

apiLogFn(status) ==
    IF status >= 500 THEN "error" ELSE IF status >= 400 THEN "warn" ELSE "info"

\* The number of entries of the scenarios array (server.js:250-534).
NumScenarios == 23

\* scenarios[id - 1]() with its random draws fixed: d1 is the draw that picks
\* the level (an index into a list, a duration, 1 for success), d2 the draw
\* of a second attribute (a duration; 1 for the success of an external call,
\* which its level does not depend on).  The event is what the scenario hands to
\* the logger.
scenarios(id, d1, d2) ==
    LET E(level, message, type, event) ==
            [Ev(level, message, type) EXCEPT !.event = event, !.scenario = id]
    IN CASE id = 1 -> E("info", "User login successful", "user-activity", "login")
         [] id = 2 -> E("info", "User logout", "user-activity", "logout")
         [] id = 3 -> E("info", "Page view", "user-activity", "page_view")
         [] id = 4 -> E("info", "User action", "user-activity", "click")
         [] id = 5 -> [E(apiLogFn(statusCodes[d1]), "API request", "api-request", "")
                          EXCEPT !.statusCode = statusCodes[d1], !.duration = d2]
         [] id = 6 -> [E(IF d1 > 300 THEN "warn" ELSE "info",
                         "Database operation", "database", "")
                          EXCEPT !.duration = d1]
         [] id = 7 -> E("info", "Database connection pool status", "database",
                        "pool_status")
         [] id = 8 -> E("warn", "Rate limit triggered", "security", "rate_limit")
         [] id = 9 -> E("warn", "Suspicious activity detected", "security",
                        "suspicious_activity")
         [] id = 10 -> E("info", "JWT token issued", "security", "token_issued")
         [] id = 11 -> E("info", "System metrics snapshot", "infrastructure",
                         "metrics_snapshot")
         [] id = 12 -> E("info", "Cache operation", "performance", "cache")
         [] id = 13 -> [E(IF d1 > 200 THEN "warn" ELSE "info",
                          "External service call", "performance", "external_call")
                           EXCEPT !.duration = d1,
                                  !.outcome = IF d2 = 1 THEN "success"
                                              ELSE "failure"]
         [] id = 14 -> E("info", "Order created", "business", "order_created")
         [] id = 15 -> [E(IF paymentStatuses[d1] = "failed" THEN "error"
                          ELSE IF paymentStatuses[d1] = "refunded" THEN "warn"
                          ELSE "info",
                          "Payment processed", "business", "payment_processed")
                           EXCEPT !.outcome = paymentStatuses[d1], !.duration = d2]
         [] id = 16 -> E("info", "Inventory update", "business", "inventory_change")
         [] id = 17 -> [E(IF d1 = 1 THEN "info" ELSE "error",
                          "Background job completed", "worker", "job_completed")
                           EXCEPT !.outcome = IF d1 = 1 THEN "success" ELSE "failure",
                                  !.duration = d2]
         [] id = 18 -> E("info", "Queue metrics", "worker", "queue_metrics")
         [] id = 19 -> [E(IF d1 = 1 THEN "info" ELSE "error",
                          "Notification dispatched", "notification", "dispatch")
                           EXCEPT !.outcome = IF d1 = 1 THEN "delivered"
                                              ELSE "delivery_failed",
                                  !.duration = d2]
         [] id = 20 -> E("error", "Unhandled exception caught", "application-error", "")
         [] id = 21 -> [E("error", "Circuit breaker tripped", "infrastructure",
                          "circuit_breaker")
                           EXCEPT !.outcome = breakerStates[d1]]
         [] id = 22 -> E("info", "Configuration loaded", "config", "config_reload")
         [] id = 23 -> E("info", "Audit event", "audit", "audit")

\* The draws of the fast loop that are explored: a scenario of fixed level and
\* the API-request scenario with a server error.
SampledPicks == {<<1, 1, 0>>, <<5, 9, 0>>}

\* The scenarios whose event does not depend on a draw that the model reads.
FixedScenarios == {1, 2, 3, 4, 7, 8, 9, 10, 11, 12, 14, 16, 18, 20, 22, 23}

\* Every scenario of the array with the draws that decide its level, and for
\* a duration the values at and above the thresholds: Math.floor(
\* Math.random() * 500) for the database and external-call scenarios, * 3000
\* for the payment, * 10000 for the job, * 2000 for the notification.
Catalog ==
    {<<id, 1, 0>> : id \in FixedScenarios}
    \cup {<<5, d1, 0>> : d1 \in DOMAIN statusCodes}
    \cup {<<6, d1, 0>> : d1 \in {300, 301, 499}}
    \cup {<<13, d1, d2>> : d1 \in {200, 201, 499}, d2 \in {0, 1}}
    \cup {<<15, d1, d2>> : d1 \in DOMAIN paymentStatuses, d2 \in {1000, 1001}}
    \cup {<<17, d1, d2>> : d1 \in {0, 1}, d2 \in {1000, 1001}}
    \cup {<<19, d1, d2>> : d1 \in {0, 1}, d2 \in {1000, 1001}}
    \cup {<<21, d1, 0>> : d1 \in DOMAIN breakerStates}

\* ------------------------------------------------------------ the timers

\* Values drawn for 30000 + Math.random() * 30000 (server.js:575).
BurstPeriods == {30000, 59999}
\* Math.floor(Math.random() * 5) + 2 (server.js:562).
BurstSizes == 2..6
\* 1 + Math.floor(Math.random() * 4) (server.js:538).
TickCountsFive == 1..5

TickCounts == 1..4

\* The draws of a tick of count scenarios that are explored: one of them is
\* any draw of wide, at any position, the others are sampled ones.
TickPicks(count, wide) ==
    {[i \in 1..count |-> IF i = k THEN c ELSE q[i]] :
        k \in 1..count, c \in wide, q \in [1..count -> SampledPicks]}

NoTick == [loop |-> "", count |-> 0, invoked |-> 0, threw |-> FALSE]

\* The pending timers that the model still follows: an interval is followed
\* for its first MaxFastTicks, MaxHealthTicks or MaxBursts runs.
Timers ==
    (IF fastDue >= 0 /\ fastTicks < MaxFastTicks
     THEN {[kind |-> "fast", i |-> 0, due |-> fastDue]} ELSE {})
    \cup (IF healthDue >= 0 /\ healthTicks < MaxHealthTicks
          THEN {[kind |-> "health", i |-> 0, due |-> healthDue]} ELSE {})
    \cup (IF burstDue >= 0 /\ bursts < MaxBursts
          THEN {[kind |-> "burst", i |-> 0, due |-> burstDue]} ELSE {})
    \cup {[kind |-> "cascade", i |-> c.i, due |-> c.due] : c \in cascades}

TimerDues == {t.due : t \in Timers}

Overdue == {t \in Timers : t.due <= now}

\* A timer due at d runs now: it is due, and no pending timer is due before it.
Earliest(d) == d >= 0 /\ d <= now /\ \A t \in TimerDues : d <= t

\* The period the burst interval is re-armed with after a run: the one the
\* interval was created with.
rearmPeriod(p) == p

\* The correlationId of a cascading-failure event: Date.now() when its
\* timeout callback runs (server.js:571).
correlationIdOf(c) == now

\* The delay of the timeout of sub-event i (server.js:573).
staggerConst(i) == StaggerDelay

staggerByPeriod(i) == i * 30000

stagger(i) == i * StaggerDelay

\* The app.listen callback (server.js:579-596): two startup events,
\* generateContinuousLogs() creating the three intervals, a third event.
Listen ==
    /\ ~crashed
    /\ ~listening
    /\ listening' = TRUE
    /\ \E period \in BurstPeriods, f \in Faults(3) :
         LET evs == <<Ev("info", "=== SERVER STARTED ===", "startup"),
                      [Ev("info", "Starting continuous log generator", "startup")
                          EXCEPT !.event = "log_generator_init"],
                      [Ev("info", "Log generator active", "startup")
                          EXCEPT !.event = "log_generator_running"]>>
             started == f = 0 \/ f = 3
         IN /\ log' = log \o Written(evs, f)
            /\ faults' = faults + (IF f = 0 THEN 0 ELSE 1)
            /\ crashed' = (f # 0)
            /\ fastDue' = IF started THEN now + FastPeriod ELSE -1
            /\ healthDue' = IF started THEN now + HealthPeriod ELSE -1
            /\ burstDue' = IF started THEN now + period ELSE -1
            /\ burstPeriod' = IF started THEN period ELSE burstPeriod
            /\ periodDraws' = IF started THEN periodDraws + 1 ELSE periodDraws
    /\ UNCHANGED <<mongo, now, reqs, bursts, cascades, fastTicks, healthTicks, lastTick>>

\* One run of the 800 ms interval (server.js:537-542).  A scenario whose
\* write throws ends the loop and the callback; the exception is uncaught.
FastTickFrom(wide) ==
    /\ ~crashed
    /\ Earliest(fastDue)
    /\ fastTicks < MaxFastTicks
    /\ fastTicks' = fastTicks + 1
    /\ \E count \in TickCounts :
         /\ \E picks \in TickPicks(count, wide), f \in Faults(count) :
              LET evs == [i \in 1..count |->
                            [scenarios(picks[i][1], picks[i][2], picks[i][3])
                                EXCEPT !.src = fastTicks + 1]]
              IN /\ log' = log \o Written(evs, f)
                 /\ faults' = faults + (IF f = 0 THEN 0 ELSE 1)
                 /\ crashed' = (f # 0)
                 /\ fastDue' = IF f = 0 THEN now + FastPeriod ELSE fastDue
                 /\ lastTick' = [loop |-> "fast", count |-> count,
                                 invoked |-> IF f = 0 THEN count ELSE f,
                                 threw |-> (f # 0)]
    /\ UNCHANGED <<mongo, now, listening, reqs, healthDue, burstDue, burstPeriod,
                   periodDraws, bursts, cascades, healthTicks>>

\* The tick with every scenario drawn among the sampled draws.
FastTick == FastTickFrom(SampledPicks)

\* The tick with one scenario drawn from the whole catalog.
FastTickCatalog == FastTickFrom(Catalog)

\* The event of the 10 s interval (server.js:547-557).
HealthReportWarn ==
    [Ev("warn", "Periodic health report", "health")
        EXCEPT !.event = "periodic_check"]

HealthReport ==
    [Ev("info", "Periodic health report", "health")
        EXCEPT !.event = "periodic_check"]

\* One run of the 10 s interval (server.js:545-558).
HealthTick ==
    /\ ~crashed
    /\ Earliest(healthDue)
    /\ healthTicks < MaxHealthTicks
    /\ healthTicks' = healthTicks + 1
    /\ \E f \in Faults(1) :
         LET evs == <<HealthReport>>
         IN /\ log' = log \o Written(evs, f)
            /\ faults' = faults + f
            /\ crashed' = (f # 0)
            /\ healthDue' = IF f = 0 THEN now + HealthPeriod ELSE healthDue
            /\ lastTick' = [loop |-> "health", count |-> 1, invoked |-> 1,
                            threw |-> (f # 0)]
    /\ UNCHANGED <<mongo, now, listening, reqs, fastDue, burstDue, burstPeriod,
                   periodDraws, bursts, cascades, fastTicks>>

\* One run of the burst interval (server.js:561-575): the warning, then one
\* timeout per sub-event; the interval is re-armed with its period.
BurstTick ==
    /\ ~crashed
    /\ Earliest(burstDue)
    /\ bursts < MaxBursts
    /\ \E burstSize \in BurstSizes, f \in Faults(1) :
         LET k == bursts + 1
             evs == <<[Ev("warn", "Error burst detected", "infrastructure")
                          EXCEPT !.event = "error_burst", !.burstSize = burstSize,
                                 !.src = k]>>
         IN /\ log' = log \o Written(evs, f)
            /\ faults' = faults + f
            /\ crashed' = (f # 0)
            /\ cascades' = IF f # 0 THEN cascades
                           ELSE cascades \cup
                                {[burst |-> k, i |-> i, due |-> now + stagger(i)]
                                   : i \in 0..(burstSize - 1)}
            /\ burstDue' = IF f = 0 THEN now + rearmPeriod(burstPeriod) ELSE burstDue
            /\ bursts' = k
            /\ lastTick' = [loop |-> "burst", count |-> 1, invoked |-> 1,
                            threw |-> (f # 0)]
    /\ UNCHANGED <<mongo, now, listening, reqs, fastDue, healthDue, burstPeriod,
                   periodDraws, fastTicks, healthTicks>>

\* The timeout callback of one burst sub-event (server.js:565-573).
CascadeFire ==
    /\ ~crashed
    /\ \E c \in cascades, f \in Faults(1) :
         LET evs == <<[Ev("error", "Cascading failure", "application-error")
                          EXCEPT !.src = c.burst, !.idx = c.i,
                                 !.correlationId = correlationIdOf(c)]>>
         IN /\ Earliest(c.due)
            /\ log' = log \o Written(evs, f)
            /\ faults' = faults + f
            /\ crashed' = (f # 0)
            /\ cascades' = cascades \ {c}
            /\ lastTick' = [loop |-> "cascade", count |-> 1, invoked |-> 1,
                            threw |-> (f # 0)]
    /\ UNCHANGED <<mongo, now, listening, reqs, fastDue, healthDue, burstDue,
                   burstPeriod, periodDraws, bursts, fastTicks, healthTicks>>

\* Time passes up to the next due time of a timer of the generator.  The
\* event loop may be late: up to MaxOverdue timers due earlier may still be
\* pending.
AdvanceToTimer ==
    /\ ~crashed
    /\ Cardinality(Overdue) <= MaxOverdue
    /\ \E t \in TimerDues :
         /\ t > now
         /\ \A u \in TimerDues : u > now => t <= u
         /\ now' = t
    /\ UNCHANGED <<mongo, log, faults, crashed, listening, reqs>>
    /\ UNCHANGED schedVars

\* ------------------------------------------------------- specifications

\* The state once server.js has been loaded: the first event is written
\* (server.js:69), nothing listens yet and no timer exists.
Init ==
    /\ now = 0
    /\ log = <<Ev("info", "Attempting MongoDB connection", "database")>>
    /\ faults = 0
    /\ crashed = FALSE
    /\ listening = FALSE
    /\ reqs = [s \in 1..MaxReq |-> IdleReq]
    /\ fastDue = -1
    /\ healthDue = -1
    /\ burstDue = -1
    /\ burstPeriod = -1
    /\ periodDraws = 0
    /\ bursts = 0
    /\ cascades = {}
    /\ fastTicks = 0
    /\ healthTicks = 0
    /\ lastTick = NoTick
    /\ mongo = "connecting"

Request ==
    \E s \in 1..MaxReq :
        \/ SyncRequest(s)
        \/ SlowRequest(s)
        \/ SlowResume(s)
        \/ LogsRequest(s)
        \/ LogsResume(s)
        \/ Finish(s)

\* The server and its requests; the generator's timers stay pending.
NextHttp == Listen \/ Request \/ AdvanceBy \/ AdvanceToTimeout

SpecHttp == Init /\ [][NextHttp]_vars

\* The generator's timer loops, with no request in flight, up to the first
\* burst and its sub-events.
NextSched ==
    \/ Listen
    \/ FastTick
    \/ HealthTick
    \/ (BurstTick /\ bursts = 0)
    \/ CascadeFire
    \/ AdvanceToTimer

SpecSched == Init /\ [][NextSched]_vars

\* The logger accepts every write of the step.
Accepted == faults' = faults

\* The event loop runs every callback that is ready: the 'finish' event of a
\* response that was sent is emitted, a settled query resumes its handler, the
\* timeout of a suspended slow request expires and its handler resumes.
FairHttp ==
    /\ WF_vars(AdvanceToTimeout)
    /\ \A s \in 1..MaxReq :
         /\ WF_vars(SlowResume(s))
         /\ WF_vars(LogsResume(s))
         /\ WF_vars(Finish(s))

\* The requests alone on a server that started without a failure: the clock
\* moves only to the timeout of a suspended slow request.
NextHttpLive ==
    \/ (Listen /\ Accepted /\ burstPeriod' = 30000)
    \/ \E s \in 1..MaxReq :
        \/ SyncRequest(s)
        \/ SlowRequest(s)
        \/ SlowResume(s)
        \/ LogsRequest(s)
        \/ LogsResume(s)
        \/ Finish(s)
    \/ AdvanceToTimeout

SpecHttpLive == Init /\ [][NextHttpLive]_vars /\ FairHttp

\* One GET /api/simulate/slow request, one health check and the three loops
\* on the same event loop, with every draw fixed: the logger accepts every
\* write, the burst period is 30 s, the delay of the slow request is 1000 ms,
\* the fast tick invokes the API-request scenario once and the burst has two
\* sub-events; the clock stops short of the second burst.
NextMixed ==
    \/ (Listen /\ Accepted /\ burstPeriod' = 30000)
    \/ (SlowRequest(1) /\ Accepted /\ reqs'[1].due = now + 1000)
    \/ (SlowResume(1) /\ Accepted)
    \/ (SyncRequest(2) /\ Accepted /\ reqs'[2].route = "health")
    \/ (\E s \in 1..MaxReq : Finish(s) /\ Accepted)
    \/ (FastTick /\ Accepted /\ lastTick'.count = 1
                 /\ log'[Len(log')].scenario = 5)
    \/ (HealthTick /\ Accepted)
    \/ (BurstTick /\ Accepted /\ bursts = 0 /\ Cardinality(cascades') = 2)
    \/ (CascadeFire /\ Accepted)
    \/ (AdvanceToTimer /\ (bursts = 0 \/ now' < burstDue))
    \/ AdvanceToTimeout

SpecMixed == Init /\ [][NextMixed]_vars

\* The fast loop alone, drawing from the whole catalog.
NextCatalog == Listen \/ FastTickCatalog \/ AdvanceToTimer

SpecCatalog == Init /\ [][NextCatalog]_vars

\* The first request and the first tick of the fast loop of a server whose
\* initial connection to the store fails, before or after it starts to
\* listen; the tick invokes one scenario, whose write is accepted.
NextDegraded ==
    \/ ConnectFails
    \/ Listen
    \/ SyncRequest(1)
    \/ SlowRequest(1)
    \/ SlowResume(1)
    \/ LogsRequest(1)
    \/ LogsResume(1)
    \/ Finish(1)
    \/ (FastTick /\ Accepted /\ lastTick'.count = 1)
    \/ AdvanceBy
    \/ AdvanceToTimeout

SpecDegraded == Init /\ [][NextDegraded]_vars

\* Two cycles of the burst loop: the first tick of the fast and of the health
\* loop, each writing one event that is accepted, then two bursts and their
\* sub-events.
NextBursts ==
    \/ Listen
    \/ (FastTick /\ Accepted /\ lastTick'.count = 1
                 /\ log'[Len(log')].scenario = 1)
    \/ (HealthTick /\ Accepted)
    \/ BurstTick
    \/ CascadeFire
    \/ AdvanceToTimer

SpecBursts == Init /\ [][NextBursts]_vars

Next == NextHttp \/ NextSched \/ ConnectFails

Spec == Init /\ [][Next]_vars

\* ------------------------------------------------------------- properties

Completions(s) ==
    {i \in DOMAIN log : log[i].message = "Request completed" /\ log[i].src = s}

SlowWarnings(s) ==
    {i \in DOMAIN log : log[i].message = "Slow request detected" /\ log[i].src = s}

BurstWarnings(k) ==
    {i \in DOMAIN log : log[i].message = "Error burst detected" /\ log[i].src = k}

CascadeEvents(k) ==
    {i \in DOMAIN log : log[i].message = "Cascading failure" /\ log[i].src = k}

Pending(k) == {c \in cascades : c.burst = k}

\* C1: every 'Request completed' event carries the final status code of its
\* request, and its level is error for a status code >= 500, warn for
\* 400 <= status < 500 and info for any other status code.
C1_CompletionLevel ==
    \A i \in DOMAIN log :
        log[i].message = "Request completed" =>
            /\ log[i].statusCode = reqs[log[i].src].statusCode
            /\ log[i].statusCode >= 500 => log[i].level = "error"
            /\ (log[i].statusCode >= 400 /\ log[i].statusCode < 500)
                   => log[i].level = "warn"
            /\ log[i].statusCode < 400 => log[i].level = "info"

\* C1 witness: completions at level error (status 500) and at level warn
\* (a 4xx status) have both been logged.
C1_Witness ==
    \E i, j \in DOMAIN log :
        /\ log[i].message = "Request completed" /\ log[i].statusCode = 500
        /\ log[j].message = "Request completed"
        /\ log[j].statusCode >= 400 /\ log[j].statusCode < 500

\* C2: a 'Slow request detected' event is a warn event that directly follows
\* the completion event of the same request, whose duration is above 1000; and
\* once the finish listeners of a request have run, its one completion event
\* is followed by that warning whenever its duration is above 1000, whatever
\* its status code.
C2_SlowRequestWarning ==
    \A s \in 1..MaxReq :
        /\ \A i \in SlowWarnings(s) :
              /\ log[i].level = "warn"
              /\ (i - 1) \in Completions(s)
              /\ log[i - 1].duration > 1000
        /\ (reqs[s].phase = "done" /\ reqs[s].listener) =>
              /\ Cardinality(Completions(s)) = 1
              /\ \A c \in Completions(s) :
                    log[c].duration > 1000 => (c + 1) \in SlowWarnings(s)

\* C2 witness: a finished request answered 500 that took more than 1000 ms has
\* its slow-request warning right after its completion event.
C2_Witness ==
    \E s \in 1..MaxReq :
        /\ reqs[s].phase = "done"
        /\ \E c \in Completions(s) :
              /\ log[c].statusCode = 500
              /\ log[c].duration > 1000
              /\ (c + 1) \in SlowWarnings(s)

\* C3: every completion event comes after the 'Incoming request' event of the
\* same request, carries the reqId of that event, and has a duration >= 0.
C3_StartBeforeFinish ==
    \A i \in DOMAIN log :
        log[i].message = "Request completed" =>
            /\ log[i].duration >= 0
            /\ \E j \in 1..(i - 1) :
                  /\ log[j].message = "Incoming request"
                  /\ log[j].src = log[i].src
                  /\ log[j].reqId = log[i].reqId

\* C3 witness: two requests were in flight together; the second one, which
\* has another reqId, completed before the first.
C3_Witness ==
    \E a \in Completions(1), b \in Completions(2) :
        /\ b < a
        /\ log[a].reqId # log[b].reqId
        /\ log[a].duration > 0

\* C4: all 'Cascading failure' events of one burst carry the same
\* correlationId.
C4_SharedCorrelationId ==
    \A i, j \in DOMAIN log :
        (/\ log[i].message = "Cascading failure"
         /\ log[j].message = "Cascading failure"
         /\ log[i].src = log[j].src)
            => log[i].correlationId = log[j].correlationId

\* C5: a run of the burst callback writes one 'Error burst detected' warn
\* event with a burstSize in 2..6; the 'Cascading failure' error events of that
\* burst come after it, in the order of their index, one per index below
\* burstSize; the sub-events not yet written are pending, sub-event i being due
\* i * 200 ms after the warning.
C5_BurstCycle ==
    \A k \in 1..bursts :
        /\ Cardinality(BurstWarnings(k)) <= 1
        /\ faults = 0 => Cardinality(BurstWarnings(k)) = 1
        /\ BurstWarnings(k) = {} => (CascadeEvents(k) = {} /\ Pending(k) = {})
        /\ \A w \in BurstWarnings(k) :
              LET size == log[w].burstSize
                  emitted == {log[i].idx : i \in CascadeEvents(k)}
                  pend == {c.i : c \in Pending(k)}
              IN /\ log[w].level = "warn"
                 /\ size \in 2..6
                 /\ \A i \in CascadeEvents(k) : i > w /\ log[i].level = "error"
                 /\ \A i, j \in CascadeEvents(k) :
                       i < j => log[i].idx < log[j].idx
                 /\ emitted \cap pend = {}
                 /\ (emitted \cup pend) \subseteq 0..(size - 1)
                 /\ ~crashed => (emitted \cup pend) = 0..(size - 1)
                 /\ \A c \in Pending(k) : c.due = log[w].timestamp + c.i * 200

\* C5 witness: a burst of size 6 has written all of its six sub-events.
C5_Witness ==
    /\ cascades = {}
    /\ \E w \in BurstWarnings(1) :
          log[w].burstSize = 6 /\ Cardinality(CascadeEvents(1)) = 6

\* C7: the period of the burst loop is drawn anew for each cycle, from
\* [30 s, 60 s]: after k runs of the burst callback the period has been drawn
\* k + 1 times.
C7_PeriodDrawnEachCycle ==
    (bursts >= 1 /\ ~crashed) =>
        /\ periodDraws = bursts + 1
        /\ burstPeriod >= 30000 /\ burstPeriod <= 60000

LoopDue(loop) ==
    CASE loop = "fast" -> fastDue
      [] loop = "health" -> healthDue
      [] loop = "burst" -> burstDue

\* C8: an exception raised in a tick of one loop does not stop the two other
\* loops: their intervals are still armed in a living process.
C8_LoopsIndependent ==
    lastTick.threw =>
        \A loop \in {"fast", "health", "burst"} \ {lastTick.loop} :
            ~crashed /\ LoopDue(loop) >= 0

\* C9: a write that fails in a scenario of a fast-loop tick does not abort
\* the tick: all the scenarios the tick selected are invoked, and the loop
\* stays armed for its next tick.
C9_TickSurvivesScenarioFailure ==
    (lastTick.loop = "fast" /\ lastTick.threw) =>
        /\ lastTick.invoked = lastTick.count
        /\ ~crashed
        /\ fastDue >= 0

\* C10: a simulate endpoint whose request reached its handler answers with
\* its fixed status code and body, whether or not the logger accepted the
\* event the handler writes: once the handler has run, the response is sent
\* and it is the one of the contract.
C10_SimulateContract ==
    \A s \in 1..MaxReq :
        (/\ reqs[s].route \in {"simError", "simWarning", "simAuthFail", "simSlow"}
         /\ reqs[s].listener
         /\ reqs[s].phase # "awaiting")
            => /\ reqs[s].phase # "hung"
               /\ reqs[s].statusCode =
                     (CASE reqs[s].route = "simError" -> 500
                        [] reqs[s].route = "simWarning" -> 200
                        [] reqs[s].route = "simAuthFail" -> 401
                        [] reqs[s].route = "simSlow" -> 200)
               /\ reqs[s].body =
                     (CASE reqs[s].route = "simError" -> "Simulated error"
                        [] reqs[s].route = "simWarning" -> "simulated warning logged"
                        [] reqs[s].route = "simAuthFail" -> "Unauthorized"
                        [] reqs[s].route = "simSlow" -> "slow response")
               /\ reqs[s].route = "simSlow" => reqs[s].bodyDuration >= 0

\* C11: when the handler of a request has failed and the request has run to
\* its end, the response is a 500 and the request's completion event is an
\* error event that carries the message of the failure.
C11_FailureOnCompletionEvent ==
    \A s \in 1..MaxReq :
        (reqs[s].failure # "" /\ reqs[s].listener /\ reqs[s].phase = "done") =>
            /\ reqs[s].statusCode = 500
            /\ \E c \in Completions(s) :
                  log[c].level = "error" /\ log[c].error = reqs[s].failure

\* The request of slot s has been answered by its handler, every write of the
\* middleware and of the handler having been accepted.
Answered(s) ==
    /\ reqs[s].phase \in {"responded", "done", "aborted"}
    /\ reqs[s].failure = ""

EventsOf(s, level, type) ==
    {i \in DOMAIN log :
        /\ log[i].src = s /\ log[i].scenario = 0
        /\ log[i].level = level /\ log[i].type = type}

\* C12: a GET /api/simulate/error request that has been answered has the
\* status 500 and exactly one error event with errorCode = ERR_SIM_500 in the
\* log; no request has more than one such event, and only requests to that
\* route have one.
C12_SimulateErrorRoundTrip ==
    \A s \in 1..MaxReq :
        LET coded == {i \in DOMAIN log :
                        log[i].src = s /\ log[i].errorCode = "ERR_SIM_500"}
        IN /\ Cardinality(coded) <= 1
           /\ \A i \in coded : log[i].level = "error" /\ reqs[s].route = "simError"
           /\ (reqs[s].route = "simError" /\ Answered(s)) =>
                 /\ reqs[s].statusCode = 500
                 /\ Cardinality(coded) = 1

\* C12 witness: a GET /api/simulate/error request has run to its end with the
\* status 500, its coded error event and its completion event in the log.
C12_Witness ==
    \E s \in 1..MaxReq :
        /\ reqs[s].route = "simError"
        /\ reqs[s].phase = "done"
        /\ reqs[s].statusCode = 500
        /\ reqs[s].body = "Simulated error"
        /\ \E i \in DOMAIN log, c \in Completions(s) :
              /\ i < c
              /\ log[i].src = s
              /\ log[i].errorCode = "ERR_SIM_500"

\* C13: a GET /api/simulate/auth-fail request that has been answered has the
\* status 401 and exactly one warn event of type security in the log; no
\* request has more than one such event.
C13_AuthFailRoundTrip ==
    \A s \in 1..MaxReq :
        /\ Cardinality(EventsOf(s, "warn", "security")) <= 1
        /\ (reqs[s].route = "simAuthFail" /\ Answered(s)) =>
              /\ reqs[s].statusCode = 401
              /\ Cardinality(EventsOf(s, "warn", "security")) = 1
              /\ EventsOf(s, "error", "security") = {}

\* C13 witness: a GET /api/simulate/auth-fail request has run to its end with
\* the status 401 and its security warning in the log.
C13_Witness ==
    \E s \in 1..MaxReq :
        /\ reqs[s].route = "simAuthFail"
        /\ reqs[s].phase = "done"
        /\ reqs[s].statusCode = 401
        /\ reqs[s].body = "Unauthorized"
        /\ \E i \in EventsOf(s, "warn", "security") :
              log[i].event = "authentication_failed"

LatencyWarnings(s) ==
    {i \in DOMAIN log :
        log[i].src = s /\ log[i].message = "Slow operation completed"}

\* C14: a GET /api/simulate/slow request is suspended for a delay within
\* 1000..5000 ms; it writes at most one 'Slow operation completed' event, a
\* warn event of the latency category whose exceededThreshold flag is true
\* exactly when its duration is above 3000; and once answered, the request
\* has the status 200, exactly one such event, and the duration of its body
\* is the one of the event and is no less than 1000.
C14_SlowRoundTrip ==
    \A s \in 1..MaxReq :
        reqs[s].route = "simSlow" =>
            /\ reqs[s].phase = "awaiting" =>
                  (reqs[s].due - reqs[s].start) \in 1000..5000
            /\ Cardinality(LatencyWarnings(s)) <= 1
            /\ \A i \in LatencyWarnings(s) :
                  /\ log[i].level = "warn"
                  /\ log[i].event = "latency"
                  /\ log[i].duration >= 1000
                  /\ log[i].exceededThreshold = (log[i].duration > 3000)
            /\ Answered(s) =>
                  /\ reqs[s].statusCode = 200
                  /\ reqs[s].bodyDuration >= 1000
                  /\ Cardinality(LatencyWarnings(s)) = 1
                  /\ \A i \in LatencyWarnings(s) :
                        log[i].duration = reqs[s].bodyDuration

\* C14 witness: two slow requests have run to their end, one after exactly
\* 3000 ms with the flag false, the other after more than 3000 ms with the
\* flag true.
C14_Witness ==
    \E s, t \in 1..MaxReq :
        /\ reqs[s].phase = "done" /\ reqs[t].phase = "done"
        /\ reqs[s].bodyDuration = 3000
        /\ reqs[t].bodyDuration > 3000
        /\ \E i \in LatencyWarnings(s) : ~log[i].exceededThreshold
        /\ \E j \in LatencyWarnings(t) : log[j].exceededThreshold

\* C15: while the GET /api/simulate/slow request of slot 1 is suspended in a
\* living process, the three intervals stay armed, a timer that is due and
\* first in order can run its callback, a new request can be taken in the
\* free slot and an answered request can finish.
C15_SuspendedSlowBlocksNothing ==
    (reqs[1].route = "simSlow" /\ reqs[1].phase = "awaiting" /\ ~crashed) =>
        /\ fastDue >= 0 /\ healthDue >= 0 /\ burstDue >= 0
        /\ (Earliest(fastDue) /\ fastTicks < MaxFastTicks) => ENABLED FastTick
        /\ (Earliest(healthDue) /\ healthTicks < MaxHealthTicks)
               => ENABLED HealthTick
        /\ (Earliest(burstDue) /\ bursts < MaxBursts) => ENABLED BurstTick
        /\ (\E c \in cascades : Earliest(c.due)) => ENABLED CascadeFire
        /\ reqs[2].phase = "idle" => ENABLED SyncRequest(2)
        /\ reqs[2].phase = "responded" => ENABLED Finish(2)

\* C15 witness: between the 'Incoming request' event and the completion event
\* of a slow request lie the completion event of another request, the
\* warning of a burst and a sub-event of that burst.
C15_Witness ==
    /\ reqs[1].route = "simSlow"
    /\ reqs[1].phase = "done"
    /\ \E a \in DOMAIN log, z \in Completions(1) :
          /\ log[a].message = "Incoming request" /\ log[a].src = 1
          /\ \E c \in Completions(2) : a < c /\ c < z
          /\ \E w \in BurstWarnings(1) : a < w /\ w < z
          /\ \E e \in CascadeEvents(1) : a < e /\ e < z

ScenarioEvents == {i \in DOMAIN log : log[i].scenario # 0}

\* C16: a scenario event whose outcome is 'refunded' or 'half-open', with no
\* status code >= 500 and no 'failed' outcome, is a warn event.
C16_DegradedIsWarn ==
    \A i \in ScenarioEvents :
        (/\ log[i].outcome \in {"refunded", "half-open"}
         /\ log[i].statusCode < 500
         /\ log[i].outcome # "failed")
            => log[i].level = "warn"

\* The warning threshold of the category of a scenario event: 300 ms for a
\* database operation, 200 ms for an external call, 1000 ms otherwise.
WarningThreshold(e) ==
    IF e.type = "database" THEN 300
    ELSE IF e.event = "external_call" THEN 200
    ELSE 1000

\* C17: no scenario event whose duration is above the warning threshold of
\* its category is an info event.
C17_SlowIsNotInfo ==
    \A i \in ScenarioEvents :
        log[i].duration > WarningThreshold(log[i]) => log[i].level # "info"

WellFormed(e) == e.level \in {"info", "warn", "error"} /\ e.type # ""

\* C19: every event of the log, and the event of every draw of every
\* scenario of the catalog, has a level among info, warn and error and a
\* non-empty type.
C19_LevelAndCategory ==
    /\ \A i \in DOMAIN log : WellFormed(log[i])
    /\ \A c \in Catalog : WellFormed(scenarios(c[1], c[2], c[3]))

\* C19 witness: the log holds events of the middleware, of an endpoint, of a
\* scenario and of the loops of the scheduler, at each of the three levels.
C19_Witness ==
    /\ Completions(1) # {}
    /\ LatencyWarnings(1) # {}
    /\ ScenarioEvents # {}
    /\ BurstWarnings(1) # {}
    /\ \E i \in DOMAIN log : log[i].message = "Periodic health report"
    /\ \A level \in {"info", "warn", "error"} :
          \E i \in DOMAIN log : log[i].level = level

TickEvents(k) == {i \in ScenarioEvents : log[i].src = k}

\* C20: a tick of the fast loop selects between 1 and 4 scenarios of the
\* catalog; when no write fails every one of them is invoked, and each
\* invocation writes exactly one event, of a scenario of the catalog: the
\* events of a tick are between 1 and 4 consecutive events of the log, as
\* many as the tick selected.
C20_TickInvokesOneToFour ==
    /\ \A i \in ScenarioEvents :
          log[i].scenario \in 1..NumScenarios /\ log[i].src \in 1..fastTicks
    /\ \A k \in 1..fastTicks :
          /\ \A i, j \in TickEvents(k) : i..j \subseteq TickEvents(k)
          /\ Cardinality(TickEvents(k)) <= 4
          /\ ~crashed => Cardinality(TickEvents(k)) >= 1
    /\ lastTick.loop = "fast" =>
          /\ lastTick.count \in 1..4
          /\ lastTick.invoked \in 1..lastTick.count
          /\ ~lastTick.threw =>
                /\ lastTick.invoked = lastTick.count
                /\ Cardinality(TickEvents(fastTicks)) = lastTick.count

\* C20 witness: a tick has invoked four scenarios, the last scenario of the
\* array among them and another one twice.
C20_Witness ==
    /\ lastTick.loop = "fast"
    /\ lastTick.count = 4
    /\ Cardinality(TickEvents(fastTicks)) = 4
    /\ \E i, j, k \in TickEvents(fastTicks) :
          /\ i # j
          /\ log[i].scenario = log[j].scenario
          /\ log[k].scenario = NumScenarios

HealthReports == {i \in DOMAIN log : log[i].message = "Periodic health report"}

\* C21: every run of the health callback whose write is accepted adds exactly
\* one 'Periodic health report' event to the log; every such event is an info
\* event of type health; none is the event of a scenario of the fast loop,
\* and no draw of a scenario of the catalog produces one.
C21_HealthReport ==
    /\ Cardinality(HealthReports) =
          healthTicks - (IF lastTick.loop = "health" /\ lastTick.threw
                         THEN 1 ELSE 0)
    /\ \A i \in HealthReports :
          /\ log[i].level = "info"
          /\ log[i].type = "health"
          /\ log[i].scenario = 0
    /\ \A c \in Catalog :
          scenarios(c[1], c[2], c[3]).message # "Periodic health report"

\* C21 witness: the fast loop and then the health loop have ticked; the log
\* holds scenario events and one health report.
C21_Witness ==
    /\ lastTick.loop = "health"
    /\ ~lastTick.threw
    /\ healthTicks = 1
    /\ ScenarioEvents # {}
    /\ Cardinality(HealthReports) = 1

ConnectionFailures ==
    {i \in DOMAIN log : log[i].message = "MongoDB initial connection failed"}

\* C22: once the initial connection to the store has failed, every write
\* having been accepted, the log holds exactly one 'MongoDB initial connection
\* failed' event, at level error, and the process lives: the server can
\* start to listen if it does not yet, a listening server has its three
\* intervals armed and takes a request, and a request to the health or to a
\* simulate endpoint that has been answered has the status code and the body
\* of its contract.
C22_DegradedMode ==
    (mongo = "failed" /\ faults = 0) =>
        /\ ~crashed
        /\ Cardinality(ConnectionFailures) = 1
        /\ \A i \in ConnectionFailures : log[i].level = "error"
        /\ ~listening => ENABLED Listen
        /\ listening => (fastDue >= 0 /\ healthDue >= 0 /\ burstDue >= 0)
        /\ (listening /\ reqs[1].phase = "idle") =>
              (ENABLED SyncRequest(1) /\ ENABLED SlowRequest(1))
        /\ (Earliest(fastDue) /\ fastTicks < MaxFastTicks) => ENABLED FastTick
        /\ \A s \in 1..MaxReq :
              reqs[s].phase \in {"responded", "done"} =>
                  /\ reqs[s].route = "health" =>
                        (reqs[s].statusCode = 200 /\ reqs[s].body = "health")
                  /\ reqs[s].route = "simError" =>
                        /\ reqs[s].statusCode = 500
                        /\ reqs[s].body = "Simulated error"
                  /\ reqs[s].route = "simWarning" =>
                        /\ reqs[s].statusCode = 200
                        /\ reqs[s].body = "simulated warning logged"
                  /\ reqs[s].route = "simAuthFail" =>
                        /\ reqs[s].statusCode = 401
                        /\ reqs[s].body = "Unauthorized"
                  /\ reqs[s].route = "simSlow" =>
                        /\ reqs[s].statusCode = 200
                        /\ reqs[s].body = "slow response"
                        /\ reqs[s].bodyDuration >= 1000

\* C22 witness: the connection failed before the server listened; the
\* server then listened, the fast loop ticked and a simulate request was
\* taken after the failure and has run to its end.
C22_Witness ==
    /\ mongo = "failed" /\ faults = 0 /\ listening
    /\ reqs[1].route = "simAuthFail" /\ reqs[1].phase = "done"
    /\ \E i \in ConnectionFailures, j \in DOMAIN log, c \in Completions(1),
          t \in ScenarioEvents :
          /\ log[j].message = "=== SERVER STARTED ==="
          /\ i < j /\ j < c /\ j < t


\* The sub-events of burst k that the log holds at or after position w.
CascadesAfter(k, w) == {e \in CascadeEvents(k) : e > w}

\* C23: bursts never overlap.  When the 'Error burst detected' warning of
\* burst k+1 is written, every sub-event of burst k announced by its own
\* warning is already in the log, before that warning, and none is pending;
\* at no time do two bursts have pending sub-events.
C23_BurstsNeverOverlap ==
    /\ Cardinality({c.burst : c \in cascades}) <= 1
    /\ \A k \in 1..bursts :
         \A v \in BurstWarnings(k), w \in BurstWarnings(k + 1) :
            /\ v < w
            /\ Pending(k) = {}
            /\ Cardinality(CascadeEvents(k)) = log[v].burstSize
            /\ CascadesAfter(k, w) = {}

\* The second burst has begun after a first burst of six sub-events: its
\* warning and its first sub-event are written, the others are pending.
C23_Witness ==
    /\ bursts = 2
    /\ Cardinality(CascadeEvents(1)) = 6
    /\ BurstWarnings(2) # {}
    /\ CascadeEvents(2) # {}
    /\ Pending(2) # {}


\* The handler of the request of slot s, or the catch block of a /api/logs
\* handler, has sent the response, and the request has its finish listener.
HandlerAnswered(s) ==
    /\ reqs[s].listener
    /\ reqs[s].phase \in {"responded", "done", "aborted"}
    /\ reqs[s].body # "express-error"

OneCompletion(s) ==
    /\ reqs[s].phase = "done"
    /\ Cardinality(Completions(s)) = 1

\* C24: no request ever has two completion events; a request that wrote its
\* 'Incoming request' event and was answered by its handler eventually has
\* exactly one, unless the process dies first; a handler in which no logger
\* write threw has sent a response once it has run, whatever its route and
\* whether or not the query of the store was rejected, and a suspended
\* handler eventually resumes.
C24_EventuallyOneCompletion ==
    /\ [](\A s \in 1..MaxReq :
            /\ Cardinality(Completions(s)) <= 1
            /\ (reqs[s].phase \notin {"idle", "awaiting"}
                   /\ reqs[s].failure \in {"", QueryRejected})
                  => (HandlerAnswered(s) /\ reqs[s].statusCode >= 200))
    /\ \A s \in 1..MaxReq :
         /\ HandlerAnswered(s) ~> (OneCompletion(s) \/ crashed)
         /\ (reqs[s].phase = "awaiting") ~> (reqs[s].phase # "awaiting" \/ crashed)

\* A /api/logs request whose query was rejected and a request to an unmatched
\* route have both been answered and have one completion event each.
C24_Witness ==
    /\ reqs[1].route \in LogsRoutes /\ reqs[1].failure = QueryRejected
    /\ reqs[2].route = "notFound"
    /\ HandlerAnswered(1) /\ OneCompletion(1)
    /\ HandlerAnswered(2) /\ OneCompletion(2)


RouteNotFoundEvents(s) ==
    {i \in DOMAIN log : log[i].message = "Route not found" /\ log[i].src = s}

\* C25: a request to a path that matches no route, once answered, has the
\* status 404 and exactly one 'Route not found' event in the log, a warn
\* event of type http-error written after its 'Incoming request' event; its
\* completion event comes after that event, is a warn event and carries the
\* status code 404, and there is exactly one when its lifecycle has ended;
\* requests to other routes have no 'Route not found' event.
C25_RouteNotFound ==
    \A s \in 1..MaxReq :
        /\ reqs[s].route # "notFound" => RouteNotFoundEvents(s) = {}
        /\ (reqs[s].route = "notFound" /\ Answered(s)) =>
              /\ reqs[s].statusCode = 404
              /\ Cardinality(RouteNotFoundEvents(s)) = 1
              /\ \A i \in RouteNotFoundEvents(s) :
                    /\ log[i].level = "warn"
                    /\ log[i].type = "http-error"
                    /\ \E j \in 1..(i - 1) :
                          log[j].message = "Incoming request" /\ log[j].src = s
                    /\ \A c \in Completions(s) :
                          /\ i < c
                          /\ log[c].level = "warn"
                          /\ log[c].statusCode = 404
              /\ reqs[s].phase = "done" => Cardinality(Completions(s)) = 1

\* A request to an unmatched route has run to its end while another request
\* was in flight: its three events are in the log in their order.
C25_Witness ==
    /\ reqs[2].route = "notFound"
    /\ reqs[2].phase = "done"
    /\ reqs[1].phase = "awaiting"
    /\ \E i \in RouteNotFoundEvents(2), c \in Completions(2) :
          i < c /\ log[c].statusCode = 404 /\ log[c].level = "warn"

====
